---- MODULE Spec2Model ----
(***************************************************************************)
(* Model of src/anime.py: a Streamlit script that is re-run from top to    *)
(* bottom on every user interaction (one "render pass" per run).           *)
(*                                                                         *)
(* State that survives a render pass:                                      *)
(*   - st.session_state.favorites (line 57),                               *)
(*   - the values of the widgets that are rendered (radio, text input,     *)
(*     select boxes, number input),                                        *)
(*   - the st.cache_data stores of the four fetch functions (lines 60-106).*)
(* A render pass reads the widget values and the click that triggered it,  *)
(* calls the fetch functions and display_anime_card, and may end in        *)
(* st.rerun(), which starts another pass at once.                          *)
(***************************************************************************)
EXTENDS Integers, Sequences, FiniteSets, TLC

VARIABLES
    favorites,      \* st.session_state.favorites: a Python list of ids
    page,           \* value of the sidebar radio
    search_query,   \* value of the text input of the Search page
    year,           \* value of the "Year" select box
    season,         \* value of the "Season" select box
    page_num,       \* value of the number input of the Top Rated page
    cache,          \* st.cache_data stores: key -> entry
    now,            \* wall clock, in seconds
    ticks,          \* how many times the clock was advanced
    rerun_pending,  \* a run of the script is due: the first one of the
                    \* session, or the one st.rerun() asked for
    out,            \* what the last render pass did (observable output)
    stale_buttons,  \* buttons of the pass before the last one
    was_removed,    \* history: ids taken out of the list so far
    anime,          \* an item record handed to display_anime_card
    card            \* what display_anime_card rendered for it

vars == <<favorites, page, search_query, year, season, page_num, cache, now,
          ticks, rerun_pending, out, stale_buttons, was_removed, anime, card>>

-----------------------------------------------------------------------------
(* Bounds of the model *)

MaxId == 2              \* item identifiers are 1..MaxId
MaxTicks == 2           \* the clock is advanced at most this often

CurrentYear == 2026     \* datetime.now().year at the time of the run

Ids == 1 .. MaxId

(* Program constants *)

TTL == 3600             \* @st.cache_data(ttl=3600)
HomePage == 1           \* fetch_top_anime(page=1, limit=10)
HomeLimit == 10
TopLimit == 25          \* fetch_top_anime(page=page_num, limit=25)
PageMin == 1            \* st.number_input(min_value=1, max_value=100, value=1)
PageMax == 100
PageDefault == 1
FirstYear == 1990       \* range(current_year, 1989, -1)

Pages == {"Home", "Search", "Seasonal", "TopRated", "Favorites"}
Seasons == <<"winter", "spring", "summer", "fall">>

\* st.number_input(min_value=1, max_value=100): a value outside the range
\* is brought back into it.
number_input(v) ==
    IF v < PageMin THEN PageMin ELSE IF v > PageMax THEN PageMax ELSE v

(* Inputs the user is given in the model: small subsets of the widgets'    *)
(* ranges.                                                                 *)
QueryInputs == {"", "naruto"}
YearInputs == {CurrentYear, FirstYear}
SeasonInputs == {"winter", "fall"}
PageNumInputs == {PageMin - 1, PageMin, PageMin + 1, PageMax, PageMax + 1}

-----------------------------------------------------------------------------
(* Python values *)

\* x in list
Contains(list, x) == \E i \in 1 .. Len(list) : list[i] = x

\* A remove that takes the head of the list (list.pop(0)) whatever x is.
ListRemoveHead(list, x) ==
    IF Contains(list, x)
    THEN [raised |-> FALSE, list |-> Tail(list)]
    ELSE [raised |-> TRUE, list |-> list]

\* list.remove(x): deletes the first occurrence of x; ValueError when x is
\* not in the list.
ListRemove(list, x) ==
    IF Contains(list, x)
    THEN LET i == CHOOSE j \in 1 .. Len(list) :
                      list[j] = x /\ \A k \in 1 .. j - 1 : list[k] # x
         IN [raised |-> FALSE,
             list |-> SubSeq(list, 1, i - 1) \o SubSeq(list, i + 1, Len(list))]
    ELSE [raised |-> TRUE, list |-> list]

NoDuplicates(list) ==
    \A i, j \in 1 .. Len(list) : list[i] = list[j] => i = j

-----------------------------------------------------------------------------
(* The catalog API as the script sees it *)

\* What requests.get + raise_for_status + response.json() can come to:
\* a JSON body, or one of the exceptions the try block catches.
Statuses == {"ok", "timeout", "connection_error", "http_error"}

\* The "data" field of a list endpoint: item records, told apart by mal_id.
ListData ==
    {<<>>} \cup {<<i>> : i \in Ids} \cup {<<i, (i % MaxId) + 1>> : i \in Ids}

ListResponses == [status : Statuses \ {"ok"}, data : {<<>>}]
                     \cup [status : {"ok"}, data : ListData]

\* The "data" field of /anime/{id}/full: the record of that id, or nothing.
DetailResponses(id) == [status : Statuses \ {"ok"}, data : {<<>>}]
                           \cup [status : {"ok"}, data : {<<>>, <<id>>}]

\* The value None a fetch function returns from its except branch.
None == [ok |-> FALSE, url |-> <<>>, data |-> <<>>, ver |-> 0]

\* URL templates of the four fetch functions.
top_url(p, limit) == <<"/top/anime", p, limit>>
search_url(query) == <<"/anime", query, 20>>
details_url(anime_id) == <<"/anime/full", anime_id>>
seasonal_url(y, s) == <<"/seasons", y, s>>

\* Body of a fetch function: one GET of url, answered by response r at time
\* t.  The parsed body is returned as it is (tagged here with the URL it was
\* fetched from and the time it was served, so that two bodies of different
\* requests are different values); any exception gives None.
\* A fetch without raise_for_status(): an error status goes unnoticed.
FetchFailsOnTransportOnly(r) == r.status \in {"timeout", "connection_error"}

FetchFails(r) == r.status # "ok"

FetchBody(url, r, t) ==
    IF FetchFails(r) THEN None
    ELSE [ok |-> TRUE, url |-> url, data |-> r.data, ver |-> t]

\* "data and data.get('data')"
Truthy(data) == data.ok /\ data.data # <<>>

-----------------------------------------------------------------------------
(* st.cache_data(ttl=3600): one entry per (function, arguments) *)

CacheKeys ==
    {<<"fetch_top_anime", HomePage, HomeLimit>>}
        \cup {<<"fetch_top_anime", p, TopLimit>> : p \in {number_input(v) : v \in PageNumInputs}}
        \cup {<<"search_anime", q>> : q \in QueryInputs}
        \cup {<<"fetch_anime_details", i>> : i \in Ids}
        \cup {<<"fetch_seasonal_anime", y, s>> : y \in YearInputs, s \in SeasonInputs}

NoEntry == [present |-> FALSE, value |-> None, created |-> 0]

\* A TTL of one minute instead of one hour.
FreshForAMinute(entry, t) == entry.present /\ t - entry.created < 60

\* An entry answers a call made at time t while it is younger than the TTL.
Fresh(entry, t) == entry.present /\ t - entry.created < TTL

\* A cache that answers from an entry only when it holds a payload, so that
\* a stored None is fetched again.
CachedCallSkippingNone(c, key, url, r, t) ==
    IF c[key].present /\ t - c[key].created < TTL /\ c[key].value.ok
    THEN [value |-> c[key].value, cache |-> c, requested |-> FALSE,
          status |-> "none"]
    ELSE [value |-> IF r.status # "ok" THEN None
                    ELSE [ok |-> TRUE, url |-> url, data |-> r.data, ver |-> t],
          cache |-> [c EXCEPT ![key] =
                        [present |-> TRUE,
                         value |-> IF r.status # "ok" THEN None
                                   ELSE [ok |-> TRUE, url |-> url,
                                         data |-> r.data, ver |-> t],
                         created |-> t]],
          requested |-> TRUE,
          status |-> r.status]

\* A call of a cached function: the stored value on a hit; on a miss the
\* function body runs (one request) and its return value, None included, is
\* stored with the time of the call.
CachedCall(c, key, url, r, t) ==
    IF Fresh(c[key], t)
    THEN [value |-> c[key].value, cache |-> c, requested |-> FALSE,
          status |-> "none"]
    ELSE [value |-> FetchBody(url, r, t),
          cache |-> [c EXCEPT ![key] = [present |-> TRUE,
                                        value |-> FetchBody(url, r, t),
                                        created |-> t]],
          requested |-> TRUE,
          status |-> r.status]

fetch_top_anime(c, p, limit, r, t) ==
    CachedCall(c, <<"fetch_top_anime", p, limit>>, top_url(p, limit), r, t)

search_anime(c, query, r, t) ==
    CachedCall(c, <<"search_anime", query>>, search_url(query), r, t)

fetch_anime_details(c, anime_id, r, t) ==
    CachedCall(c, <<"fetch_anime_details", anime_id>>, details_url(anime_id), r, t)

fetch_seasonal_anime(c, y, s, r, t) ==
    CachedCall(c, <<"fetch_seasonal_anime", y, s>>, seasonal_url(y, s), r, t)

\* st.error inside a cached function is shown when the body runs and is
\* replayed on every hit of the stored None.
ErrorNotice(value) == IF value.ok THEN <<>> ELSE <<"error">>

-----------------------------------------------------------------------------
(* Widgets and the output of a render pass *)

\* The button whose click started the pass.  A click names its button by
\* kind and item id; a click can be stale (for a button the pass no longer
\* draws), and then no st.button call returns True.
NoClick == [kind |-> "none", id |-> 0]

Clicks ==
    [kind : {"fav", "remove"}, id : Ids]
        \cup [kind : {"clear", "prev", "next", "gohome"}, id : {0}]

\* Buttons keyed by their kind alone: a click counts for every item's button.
ButtonPressedAnyId(click, kind, id) == click.kind = kind

\* st.button(label, key=...) returns True in the pass started by its click.
ButtonPressed(click, kind, id) == click.kind = kind /\ click.id = id

EmptyOut ==
    [click |-> NoClick,
     time |-> 0,                \* when the pass ran
     cards |-> <<>>,            \* ids of the cards drawn, in order
     notices |-> <<>>,          \* st.error/warning/success/info, in order
     lookups |-> <<>>,          \* calls of the cached fetch functions
     requests |-> <<>>,         \* GET requests issued, with their outcome
     returned |-> <<>>,         \* what each call returned
     remove_offered |-> {},     \* ids with a "Remove from Favorites" button
     prev_offered |-> FALSE,
     next_offered |-> FALSE,
     clear_offered |-> FALSE,
     gohome_offered |-> FALSE,
     end |-> "done"]            \* "done", "rerun" (st.rerun) or "exception"

\* The buttons a pass has drawn.
ButtonsDrawn(o) ==
    [kind : {"fav"}, id : {o.cards[i] : i \in 1 .. Len(o.cards)}]
        \cup [kind : {"remove"}, id : o.remove_offered]
        \cup {c \in Clicks : \/ (c.kind = "prev" /\ o.prev_offered)
                            \/ (c.kind = "next" /\ o.next_offered)
                            \/ (c.kind = "clear" /\ o.clear_offered)
                            \/ (c.kind = "gohome" /\ o.gohome_offered)}

\* The fetch part of a pass: o extended by one call of a cached function.
AfterCall(o, key, call) ==
    [o EXCEPT !.lookups = Append(@, key),
              !.requests = IF call.requested
                           THEN Append(@, [key |-> key, status |-> call.status])
                           ELSE @,
              !.returned = Append(@, call.value),
              !.notices = @ \o ErrorNotice(call.value)]

-----------------------------------------------------------------------------
(* display_anime_card: the "Add to Favorites" button (lines 160-167) *)

\* An add without the membership test.
AddToFavoritesUnchecked(favs, anime_id) ==
    [favorites |-> Append(favs, anime_id), notices |-> <<"added">>]

\* An add that moves an id that is already there to the end of the list.
AddToFavoritesMoveToEnd(favs, anime_id) ==
    IF ~Contains(favs, anime_id)
    THEN [favorites |-> Append(favs, anime_id), notices |-> <<"added">>]
    ELSE [favorites |-> Append(SelectSeq(favs, LAMBDA e : e # anime_id), anime_id),
          notices |-> <<"already">>]

AddToFavorites(favs, anime_id) ==
    IF ~Contains(favs, anime_id)
    THEN [favorites |-> Append(favs, anime_id), notices |-> <<"added">>]
    ELSE [favorites |-> favs, notices |-> <<"already">>]

\* One card: drawn, and its add button handled when it was the one clicked.
display_anime_card(st, anime_id) ==
    LET add == IF ButtonPressed(st.out.click, "fav", anime_id)
               THEN AddToFavorites(st.favorites, anime_id)
               ELSE [favorites |-> st.favorites, notices |-> <<>>]
    IN [st EXCEPT !.favorites = add.favorites,
                  !.out.cards = Append(@, anime_id),
                  !.out.notices = @ \o add.notices]

\* "for anime in data['data']: display_anime_card(anime)"
RECURSIVE DisplayAll(_, _)
DisplayAll(st, items) ==
    IF items = <<>> THEN st
    ELSE DisplayAll(display_anime_card(st, Head(items)), Tail(items))

Notice(st, n) == [st EXCEPT !.out.notices = Append(@, n)]
Rerun(st) == [st EXCEPT !.out.end = "rerun"]

\* The state a pass works on: the session's list, the cache and the output.
PassState(favs, c, click, t) ==
    [favorites |-> favs, cache |-> c,
     out |-> [EmptyOut EXCEPT !.click = click, !.time = t]]

Called(st, key, call) ==
    [st EXCEPT !.cache = call.cache, !.out = AfterCall(@, key, call)]

-----------------------------------------------------------------------------
(* The five pages (lines 210-309) *)

\* Home: lines 210-220.
HomePass(st, r, t) ==
    LET call == fetch_top_anime(st.cache, HomePage, HomeLimit, r, t)
        s1 == Called(st, <<"fetch_top_anime", HomePage, HomeLimit>>, call)
    IN IF Truthy(call.value)
       THEN DisplayAll(s1, call.value.data)
       ELSE Notice(s1, "warning")

\* A Search page that queries whatever the text is.
SearchPassUnguarded(st, query, r, t) ==
    LET call == search_anime(st.cache, query, r, t)
        s1 == Called(st, <<"search_anime", query>>, call)
    IN IF Truthy(call.value)
       THEN DisplayAll(Notice(s1, "success"), call.value.data)
       ELSE Notice(s1, "warning")

\* Search: lines 223-240.  "if search_query:" is false for the empty text.
SearchPass(st, query, r, t) ==
    IF query # ""
    THEN LET call == search_anime(st.cache, query, r, t)
             s1 == Called(st, <<"search_anime", query>>, call)
         IN IF Truthy(call.value)
            THEN DisplayAll(Notice(s1, "success"), call.value.data)
            ELSE Notice(s1, "warning")
    ELSE Notice(st, "prompt")

\* Seasonal: lines 243-254.
SeasonalPass(st, y, s, r, t) ==
    LET call == fetch_seasonal_anime(st.cache, y, s, r, t)
        s1 == Called(st, <<"fetch_seasonal_anime", y, s>>, call)
    IN IF Truthy(call.value)
       THEN DisplayAll(Notice(s1, "success"), call.value.data)
       ELSE Notice(s1, "warning")

\* A Top Rated page that draws "previous" on every page.
TopRatedPassPrevAlways(st, pn, r, t) ==
    LET call == fetch_top_anime(st.cache, pn, TopLimit, r, t)
        s1 == Called(st, <<"fetch_top_anime", pn, TopLimit>>, call)
    IN IF Truthy(call.value)
       THEN LET s2 == DisplayAll(Notice(s1, "success"), call.value.data)
                s3 == [s2 EXCEPT !.out.prev_offered = TRUE]
            IN IF ButtonPressed(s3.out.click, "prev", 0)
               THEN Rerun(s3)
               ELSE LET s4 == [s3 EXCEPT !.out.next_offered = TRUE]
                    IN IF ButtonPressed(s4.out.click, "next", 0)
                       THEN Rerun(s4) ELSE s4
       ELSE Notice(s1, "warning")

\* Top Rated: lines 257-281.  Both pagination buttons only call st.rerun().
TopRatedPass(st, pn, r, t) ==
    LET call == fetch_top_anime(st.cache, pn, TopLimit, r, t)
        s1 == Called(st, <<"fetch_top_anime", pn, TopLimit>>, call)
    IN IF Truthy(call.value)
       THEN LET s2 == DisplayAll(Notice(s1, "success"), call.value.data)
                s3 == [s2 EXCEPT !.out.prev_offered = pn > 1]
            IN IF s3.out.prev_offered /\ ButtonPressed(s3.out.click, "prev", 0)
               THEN Rerun(s3)
               ELSE LET s4 == [s3 EXCEPT !.out.next_offered = TRUE]
                    IN IF ButtonPressed(s4.out.click, "next", 0)
                       THEN Rerun(s4) ELSE s4
       ELSE Notice(s1, "warning")

\* What stands for the answer of a request that is not issued.
Unasked == [status |-> "ok", data |-> <<>>]

\* The answer to the detail request of one id, when that request is issued.
Answer(dr, anime_id) == IF anime_id \in DOMAIN dr THEN dr[anime_id] ELSE Unasked

\* The "Remove from Favorites" button of one item (lines 302-304).
RemoveFromFavorites(st, anime_id) ==
    LET rm == ListRemove(st.favorites, anime_id)
    IN IF rm.raised THEN [st EXCEPT !.out.end = "exception"]
       ELSE Rerun([st EXCEPT !.favorites = rm.list])

\* May the remove button be drawn for this item?  (line 298)
RemoveOffered(details) == Truthy(details)

\* One round of "for anime_id in st.session_state.favorites" (lines 294-304),
\* at index i of the list as it is then; dr gives the API's answer per id.
RECURSIVE FavoritesLoop(_, _, _, _)
FavoritesLoop(st, i, dr, t) ==
    IF i > Len(st.favorites) THEN st
    ELSE LET anime_id == st.favorites[i]
             call == fetch_anime_details(st.cache, anime_id, Answer(dr, anime_id), t)
             s1 == Called(st, <<"fetch_anime_details", anime_id>>, call)
         IN IF RemoveOffered(call.value)
            THEN LET s2 == display_anime_card(s1, Head(call.value.data))
                     s3 == [s2 EXCEPT !.out.remove_offered = @ \cup {anime_id}]
                 IN IF ButtonPressed(s3.out.click, "remove", anime_id)
                    THEN RemoveFromFavorites(s3, anime_id)
                    ELSE FavoritesLoop(s3, i + 1, dr, t)
            ELSE FavoritesLoop(s1, i + 1, dr, t)

\* Favorites: lines 284-309.
FavoritesPass(st, dr, t) ==
    IF st.favorites # <<>>
    THEN LET s1 == [Notice(st, "success") EXCEPT !.out.clear_offered = TRUE]
         IN IF ButtonPressed(s1.out.click, "clear", 0)
            THEN Rerun([s1 EXCEPT !.favorites = <<>>])
            ELSE FavoritesLoop(s1, 1, dr, t)
    ELSE LET s1 == [Notice(st, "empty") EXCEPT !.out.gohome_offered = TRUE]
         IN IF ButtonPressed(s1.out.click, "gohome", 0) THEN Rerun(s1) ELSE s1

\* The script from top to bottom: dispatch on the radio's value.
RenderPass(pg, favs, c, query, y, s, pn, click, r, dr, t) ==
    LET st == PassState(favs, c, click, t)
    IN CASE pg = "Home" -> HomePass(st, r, t)
         [] pg = "Search" -> SearchPass(st, query, r, t)
         [] pg = "Seasonal" -> SeasonalPass(st, y, s, r, t)
         [] pg = "TopRated" -> TopRatedPass(st, pn, r, t)
         [] pg = "Favorites" -> FavoritesPass(st, dr, t)

-----------------------------------------------------------------------------
(* display_anime_card: the fields of the item (lines 108-177) *)

\* An item record of a payload, field by field: the key is absent, or it is
\* there with JSON null, or with a value.  The two nested objects can also
\* be there with their inner key null.
Scalar == {"absent", "null", "value"}
ImagesValues == {"absent", "null", "jpg_null", "url_null", "value"}
TrailerValues == {"absent", "null", "url_null", "value"}
GenresValues == {"absent", "null", "value"}

Metrics == {"score", "episodes", "year", "status"}

Items ==
    [score : Scalar, episodes : Scalar, year : Scalar, status : Scalar,
     title_english : Scalar, synopsis : Scalar, url : Scalar,
     images : ImagesValues, trailer : TrailerValues, genres : GenresValues]

\* dict.get(key, default): the default only when the key is absent; a key
\* that is there with null gives None.
DictGet(d, key, default) == IF d[key] = "absent" THEN default ELSE d[key]

\* st.metric(label, value) draws None as a dash.
MetricShown(value) == IF value = "null" THEN "dash" ELSE value

\* anime.get('score', 'N/A') and st.metric, likewise for the other three.
Metric(d, key) == MetricShown(DictGet(d, key, "N/A"))

\* "if anime.get(key):" for a field whose values are all truthy
Present(d, key) == DictGet(d, key, "null") = "value"

\* anime.get('images', {}).get('jpg', {}).get('large_image_url'): calling
\* .get on None raises AttributeError.
ImageRaises(d) == DictGet(d, "images", "empty") \in {"null", "jpg_null"}
ImageShown(d) == DictGet(d, "images", "empty") = "value"

\* anime.get('trailer', {}).get('url')
TrailerRaises(d) == DictGet(d, "trailer", "empty") = "null"
TrailerShown(d) == DictGet(d, "trailer", "empty") = "value"

NoCard ==
    [rendered |-> FALSE, raised |-> FALSE, image |-> FALSE, english |-> FALSE,
     metrics |-> [m \in Metrics |-> "not drawn"], genres |-> FALSE,
     synopsis |-> FALSE, add_button |-> FALSE, link |-> FALSE,
     trailer |-> FALSE]

\* The card of one item, top to bottom; an exception ends it where it is
\* raised.
CardOf(d) ==
    IF ImageRaises(d)
    THEN [NoCard EXCEPT !.rendered = TRUE, !.raised = TRUE]
    ELSE [rendered |-> TRUE,
          raised |-> TrailerRaises(d),
          image |-> ImageShown(d),
          english |-> Present(d, "title_english"),
          metrics |-> [m \in Metrics |-> Metric(d, m)],
          genres |-> Present(d, "genres"),
          synopsis |-> Present(d, "synopsis"),
          add_button |-> TRUE,
          link |-> Present(d, "url"),
          trailer |-> TrailerShown(d)]

-----------------------------------------------------------------------------
(* The session: one action per user interaction, each a whole render pass *)

\* An item with a value in every field.
CompleteItem ==
    [score |-> "value", episodes |-> "value", year |-> "value",
     status |-> "value", title_english |-> "value", synopsis |-> "value",
     url |-> "value", images |-> "value", trailer |-> "value",
     genres |-> "value"]

Init ==
    /\ favorites = <<>>
    /\ page = "Home"
    /\ search_query = ""
    /\ year = CurrentYear
    /\ season = Seasons[1]
    /\ page_num = PageDefault
    /\ cache = [k \in CacheKeys |-> NoEntry]
    /\ now = 0
    /\ ticks = 0
    /\ rerun_pending = TRUE
    /\ out = EmptyOut
    /\ stale_buttons = {}
    /\ was_removed = {}
    /\ anime = CompleteItem
    /\ card = NoCard

\* The call of a list endpoint the page makes, if it makes one.
PageKey(pg, query, y, s, pn) ==
    CASE pg = "Home" -> <<"fetch_top_anime", HomePage, HomeLimit>>
      [] pg = "Search" -> <<"search_anime", query>>
      [] pg = "Seasonal" -> <<"fetch_seasonal_anime", y, s>>
      [] pg = "TopRated" -> <<"fetch_top_anime", pn, TopLimit>>

\* The API's answers in one pass.  Only a request that is really issued has
\* an answer to choose: the page's list call when no fresh entry serves it,
\* and the detail calls of the favorited ids without a fresh entry.
ListAnswer(pg, query, y, s, pn, LR) ==
    IF \/ pg = "Favorites"
       \/ pg = "Search" /\ query = ""
       \/ Fresh(cache[PageKey(pg, query, y, s, pn)], now)
    THEN {Unasked} ELSE LR

DetailAsked(pg) ==
    IF pg = "Favorites"
    THEN {i \in Ids : /\ Contains(favorites, i)
                      /\ ~Fresh(cache[<<"fetch_anime_details", i>>], now)}
    ELSE {}

DetailAnswers(pg, DS) ==
    {dr \in [DetailAsked(pg) -> UNION {DetailResponses(i) : i \in Ids}] :
        \A i \in DetailAsked(pg) :
            dr[i] \in DetailResponses(i) /\ dr[i].status \in DS}

\* A run of the script with the widget values pg, query, y, s, pn and the
\* click that started it; the API answers from LR (list endpoints) and with
\* a status of DS (detail endpoint).
Run(pg, query, y, s, pn, click, LR, DS) ==
    \E r \in ListAnswer(pg, query, y, s, pn, LR), dr \in DetailAnswers(pg, DS) :
        \E res \in {RenderPass(pg, favorites, cache, query, y, s, pn, click, r, dr, now)} :
           /\ favorites' = res.favorites
           /\ cache' = res.cache
           /\ out' = res.out
           /\ rerun_pending' = (res.out.end = "rerun")
           /\ page' = pg
           /\ search_query' = query
           /\ year' = y
           /\ season' = s
           /\ page_num' = pn
           /\ stale_buttons' = ButtonsDrawn(out)
           /\ was_removed' = was_removed \cup
                 {x \in Ids : Contains(favorites, x) /\ ~Contains(res.favorites, x)}
           /\ UNCHANGED <<now, ticks, anime, card>>

\* The radio is changed.  Widgets that are not drawn lose their value, so
\* the inputs of the other pages are back at their defaults.
Navigate(pg, LR, DS) ==
    /\ ~rerun_pending
    /\ pg # page
    /\ Run(pg, "", CurrentYear, Seasons[1], PageDefault, NoClick, LR, DS)

\* Text is entered in the search box.
EnterQuery(query, LR, DS) ==
    /\ ~rerun_pending
    /\ page = "Search"
    /\ query # search_query
    /\ Run(page, query, year, season, page_num, NoClick, LR, DS)

\* A year or a season is selected in the sidebar.
SelectYear(y, LR, DS) ==
    /\ ~rerun_pending
    /\ page = "Seasonal"
    /\ y # year
    /\ Run(page, search_query, y, season, page_num, NoClick, LR, DS)

SelectSeason(s, LR, DS) ==
    /\ ~rerun_pending
    /\ page = "Seasonal"
    /\ s # season
    /\ Run(page, search_query, year, s, page_num, NoClick, LR, DS)

\* The number input is set (typed, or stepped with + and -).
SetPageNum(v, LR, DS) ==
    /\ ~rerun_pending
    /\ page = "TopRated"
    /\ number_input(v) # page_num
    /\ Run(page, search_query, year, season, number_input(v), NoClick, LR, DS)

\* A button is clicked: one that the last pass has drawn, or one of the pass
\* before it (a click sent before the page was drawn again).
Click(click, LR, DS) ==
    /\ ~rerun_pending
    /\ click \in ButtonsDrawn(out) \cup stale_buttons
    /\ Run(page, search_query, year, season, page_num, click, LR, DS)

\* The first run of the script in the session, and the run st.rerun() asks
\* for.
RerunPass(LR, DS) ==
    /\ rerun_pending
    /\ Run(page, search_query, year, season, page_num, NoClick, LR, DS)

\* Time passes.
Tick ==
    /\ ticks < MaxTicks
    /\ now' = now + (IF ticks % 2 = 0 THEN TTL - 1 ELSE 1)
    /\ ticks' = ticks + 1
    /\ UNCHANGED <<favorites, page, search_query, year, season, page_num,
                   cache, rerun_pending, out, stale_buttons, was_removed, anime,
                   card>>

\* The API's answers to a list request in the specifications that do not
\* need every list: a failure of each kind, or a list of one item.
FewListResponses ==
    [status : Statuses \ {"ok"}, data : {<<>>}]
        \cup {[status |-> "ok", data |-> <<1>>]}

(* The five pages with their inputs as they are when the page is opened,   *)
(* the search box, and every button.                                       *)
Next ==
    \/ \E pg \in Pages : Navigate(pg, FewListResponses, Statuses)
    \/ \E query \in QueryInputs : EnterQuery(query, FewListResponses, Statuses)
    \/ \E click \in Clicks : Click(click, FewListResponses, Statuses)
    \/ RerunPass(FewListResponses, Statuses)

Spec == Init /\ [][Next]_vars

(* The part of the application that works on the favorites list: the Home  *)
(* page, where items are added, and the Favorites page.                    *)
FavPages == {"Home", "Favorites"}

NextFav ==
    \/ \E pg \in FavPages : Navigate(pg, ListResponses, Statuses)
    \/ \E click \in Clicks : Click(click, ListResponses, Statuses)
    \/ RerunPass(ListResponses, Statuses)

SpecFav == Init /\ [][NextFav]_vars

(* The Top Rated page and its number input.                                *)
TopPages == {"Home", "TopRated"}

NextTop ==
    \/ \E pg \in TopPages : Navigate(pg, FewListResponses, Statuses)
    \/ \E v \in PageNumInputs : SetPageNum(v, FewListResponses, Statuses)
    \/ \E click \in Clicks : Click(click, FewListResponses, Statuses)
    \/ RerunPass(FewListResponses, Statuses)

SpecTop == Init /\ [][NextTop]_vars

(* The Seasonal page and its two select boxes.                             *)
SeasonalPages == {"Home", "Seasonal"}

NextSeasonal ==
    \/ \E pg \in SeasonalPages : Navigate(pg, FewListResponses, Statuses)
    \/ \E y \in YearInputs : SelectYear(y, FewListResponses, Statuses)
    \/ \E s \in SeasonInputs : SelectSeason(s, FewListResponses, Statuses)
    \/ \E click \in Clicks : Click(click, FewListResponses, Statuses)
    \/ RerunPass(FewListResponses, Statuses)

SpecSeasonal == Init /\ [][NextSeasonal]_vars

(* The four cached fetch functions over time: one page per function, one  *)
(* kind of failure, and the buttons that change the favorites list.        *)
CachePages == {"Home", "Search", "Seasonal", "Favorites"}
CacheStatuses == {"ok", "timeout"}
CacheListResponses ==
    {[status |-> "timeout", data |-> <<>>], [status |-> "ok", data |-> <<1>>]}
CacheClicks == {c \in Clicks : c.kind \in {"fav", "remove"} /\ c.id = 1}

NextCache ==
    \/ \E pg \in CachePages : Navigate(pg, CacheListResponses, CacheStatuses)
    \/ \E query \in QueryInputs : EnterQuery(query, CacheListResponses, CacheStatuses)
    \/ \E click \in CacheClicks : Click(click, CacheListResponses, CacheStatuses)
    \/ RerunPass(CacheListResponses, CacheStatuses)
    \/ Tick

SpecCache == Init /\ [][NextCache]_vars

(* display_anime_card on one item record, any of its fields missing.       *)
InitCard ==
    /\ favorites = <<>>
    /\ page = "Home"
    /\ search_query = ""
    /\ year = CurrentYear
    /\ season = Seasons[1]
    /\ page_num = PageDefault
    /\ cache = [k \in CacheKeys |-> NoEntry]
    /\ now = 0
    /\ ticks = 0
    /\ rerun_pending = TRUE
    /\ out = EmptyOut
    /\ stale_buttons = {}
    /\ was_removed = {}
    /\ anime \in Items
    /\ card = NoCard

RenderCard ==
    /\ ~card.rendered
    /\ card' = CardOf(anime)
    /\ UNCHANGED <<favorites, page, search_query, year, season, page_num,
                   cache, now, ticks, rerun_pending, out, stale_buttons,
                   was_removed, anime>>

NextCard == RenderCard

SpecCard == InitCard /\ [][NextCard]_vars

-----------------------------------------------------------------------------
(* Properties *)

Range(seq) == {seq[i] : i \in 1 .. Len(seq)}

Count(seq, x) == Cardinality({i \in 1 .. Len(seq) : seq[i] = x})

Without(seq, x) == SelectSeq(seq, LAMBDA e : e # x)

FavClick(x) == [kind |-> "fav", id |-> x]
RemoveClick(x) == [kind |-> "remove", id |-> x]
DetailKey(x) == <<"fetch_anime_details", x>>

\* A cached function is called at most once per key in a pass.
LookedUp(o, key) == \E i \in 1 .. Len(o.lookups) : o.lookups[i] = key
ReturnedFor(o, key) ==
    o.returned[CHOOSE i \in 1 .. Len(o.lookups) : o.lookups[i] = key]
RequestedKeys(o) == {o.requests[i].key : i \in 1 .. Len(o.requests)}
FailedKeys(o) ==
    {o.requests[i].key : i \in {j \in 1 .. Len(o.requests) : o.requests[j].status # "ok"}}

\* C1: under any sequence of add, remove and clear-all actions the favorites
\* list never holds an identifier twice, and the add action on a drawn card
\* of an identifier that was removed before puts it back, exactly once.
C1_NoDuplicatesReAdd ==
    [][/\ NoDuplicates(favorites) /\ NoDuplicates(favorites')
       /\ \A x \in was_removed :
              (out'.click = FavClick(x) /\ x \in Range(out'.cards)
                   /\ ~Contains(favorites, x))
                  => Count(favorites', x) = 1]_vars

C1_Witness ==
    \E x \in was_removed :
        /\ Contains(favorites, x)
        /\ out.click = FavClick(x)
        /\ "added" \in Range(out.notices)

\* C2: the add action on a drawn card appends an absent identifier at the
\* end with the confirmation notice, and leaves the list as it is with the
\* "already in favorites" notice when the identifier is present; so adding
\* twice gives the list that adding once gives.
C2_AddIdempotent ==
    [][\A x \in Ids :
           /\ (out'.click = FavClick(x) /\ x \in Range(out'.cards)) =>
                  IF Contains(favorites, x)
                  THEN /\ favorites' = favorites
                       /\ "already" \in Range(out'.notices)
                       /\ "added" \notin Range(out'.notices)
                  ELSE /\ favorites' = Append(favorites, x)
                       /\ "added" \in Range(out'.notices)
                       /\ "already" \notin Range(out'.notices)
           /\ AddToFavorites(AddToFavorites(favorites, x).favorites, x).favorites
                  = AddToFavorites(favorites, x).favorites
           /\ AddToFavorites(AddToFavorites(favorites, x).favorites, x).notices
                  = <<"already">>]_vars

C2_Witness ==
    /\ out.click.kind = "fav"
    /\ out.click.id \in Range(out.cards)
    /\ "already" \in Range(out.notices)
    /\ Len(favorites) > 1

\* C7: a click on the remove button of an identifier that is not in the
\* list leaves the list as it is and the pass ends normally; no pass ends
\* in the ValueError of list.remove.
C7_RemoveAbsentNoOp ==
    [][/\ out'.end # "exception"
       /\ \A x \in Ids :
              (out'.click = RemoveClick(x) /\ ~Contains(favorites, x))
                  => favorites' = favorites /\ out'.end = "done"]_vars

C7_Witness ==
    /\ page = "Favorites"
    /\ out.click.kind = "remove"
    /\ ~Contains(favorites, out.click.id)
    /\ favorites # <<>>
    /\ out.end = "done"

ListPages == {"Home", "Search", "Seasonal", "TopRated"}

C5_EmptyQueryNoSearch ==
    /\ (page = "Search" /\ search_query = "") =>
           /\ out.lookups = <<>>
           /\ out.requests = <<>>
           /\ out.cards = <<>>
           /\ out.notices = <<"prompt">>
    /\ \A i \in 1 .. Len(out.lookups) :
           out.lookups[i][1] = "search_anime" =>
               /\ out.lookups[i][2] # ""
               /\ search_query # ""
    /\ ~cache[<<"search_anime", "">>].present

C5_Witness ==
    /\ page = "Search"
    /\ search_query = ""
    /\ out.notices = <<"prompt">>
    /\ \E q \in QueryInputs : cache[<<"search_anime", q>>].present

\* C9: the page number stays in 1..100 and a pass over the Top Rated page
\* fetches that page with limit 25; "previous" is drawn only on a page
\* greater than 1; a click on "previous" or "next" changes neither the page
\* number nor the favorites list nor the selected page, and the run it asks
\* for fetches the same page again.
C9_TopRatedPagination ==
    [][/\ page_num' \in PageMin .. PageMax
       /\ page' = "TopRated" =>
              out'.lookups = << <<"fetch_top_anime", page_num', TopLimit>> >>
       /\ out'.prev_offered => page_num' > 1
       /\ out'.click.kind \in {"prev", "next"} =>
              /\ page_num' = page_num
              /\ favorites' = favorites
              /\ page' = page
       /\ (rerun_pending /\ page = "TopRated") =>
              /\ page' = page
              /\ page_num' = page_num
              /\ out'.lookups = out.lookups
              /\ out'.cards = out.cards]_vars

C9_Witness ==
    /\ page = "TopRated"
    /\ page_num = PageMax
    /\ out.click.kind = "prev"
    /\ out.end = "rerun"
    /\ favorites # <<>>

\* The URL a call with this cache key fetches.
KeyUrl(key) ==
    CASE key[1] = "fetch_top_anime" -> top_url(key[2], key[3])
      [] key[1] = "search_anime" -> search_url(key[2])
      [] key[1] = "fetch_anime_details" -> details_url(key[2])
      [] key[1] = "fetch_seasonal_anime" -> seasonal_url(key[2], key[3])

Age(key) == now - cache[key].created

C6_MissingFieldsTolerated ==
    card.rendered =>
        /\ ~card.raised
        /\ \A m \in Metrics :
               anime[m] \in {"absent", "null"} => card.metrics[m] = "N/A"
        /\ anime.images # "value" => ~card.image
        /\ anime.genres # "value" => ~card.genres
        /\ anime.synopsis # "value" => ~card.synopsis
        /\ anime.url # "value" => ~card.link
        /\ anime.trailer # "value" => ~card.trailer
        /\ anime.title_english # "value" => ~card.english

====
